---------------------------- MODULE Spec2Model ----------------------------
(***************************************************************************)
(* State-machine model of src/app.py (ETABS footing reaction heatmap):     *)
(* process_etabs_file (validate three sheets, drop rows with nulls, derive *)
(* footing rectangles from corner rows, inner-join reactions to joint      *)
(* coordinates, attach the nearest footing, list the output cases) and the *)
(* load-combination filter of the main logic.                              *)
(*                                                                         *)
(* A DataFrame is a record [columns |-> set of column names,               *)
(* rows |-> sequence of rows], a row being a function from column name to  *)
(* cell.  A null cell (NaN) is the value NaN.  Coordinates are integers    *)
(* (mm).  The quotients of lines 117-120 (true division) and the squared   *)
(* distances of line 133 are kept as exact fractions [num, den] in lowest  *)
(* terms with den > 0, so that a centre of 0.5 mm or a side of 0.001 m is  *)
(* what the code computes, not its floor.                                  *)
(***************************************************************************)
EXTENDS Integers, Sequences, FiniteSets, TLC

VARIABLES loads_raw, joints_raw, areas_raw,
          loads_df, joints_df, areas_df,
          footing_geom, merged, final_df, load_combos,
          selected_combo, df, pc, err

vars == <<loads_raw, joints_raw, areas_raw, loads_df, joints_df, areas_df,
          footing_geom, merged, final_df, load_combos,
          selected_combo, df, pc, err>>

\* A null cell: what dropna removes.
NaN == -1

\* ------------------------------------------------------------ bounds
MaxReactions == 3
MaxCoords == 2
MaxAreas == 4
MaxNullRows == 2
MaxFineAreas == 3

\* ------------------------------------------------------------ schema
ReactionCols == <<"Unique Name", "Output Case", "FZ">>
CoordCols == <<"Object Name", "Global X", "Global Y">>
AreaCols == <<"Object Name", "Joint", "Global X", "Global Y">>
ReactionLabel == "Joint Reactions"
CoordLabel == "Joint Coordinates"
AreaLabel == "Footing / Area"

Range(s) == {s[i] : i \in DOMAIN s}

EmptyFrame == [columns |-> {}, rows |-> <<>>]
NoError == [exc |-> "", label |-> "", missing |-> <<>>]

\* ------------------------------------------------------------ helpers
\* Mutant of MissingColumns: stops at the first missing column.
MissingColumnsFirstOnly(frame, required_cols) ==
    LET m == SelectSeq(required_cols, LAMBDA c : c \notin frame.columns)
    IN  IF m = <<>> THEN <<>> ELSE <<m[1]>>

\* required_cols that are not columns of the frame, in required order.
MissingColumns(frame, required_cols) ==
    SelectSeq(required_cols, LAMBDA c : c \notin frame.columns)

\* DataFrame.dropna(subset=...): the rows with no null cell in subset.
DropNa(frame, subset) ==
    [columns |-> frame.columns,
     rows |-> SelectSeq(frame.rows,
                        LAMBDA r : \A c \in Range(subset) : r[c] # NaN)]

\* DataFrame.rename(columns={old: new}).
RenameRow(r, old, new) ==
    [c \in (DOMAIN r \ {old}) \cup {new} |-> IF c = new THEN r[old] ELSE r[c]]

Rename(frame, old, new) ==
    [columns |-> (frame.columns \ {old}) \cup {new},
     rows |-> [i \in DOMAIN frame.rows |-> RenameRow(frame.rows[i], old, new)]]


\* Exact fractions for the float quotients of lines 117-120 and 133.
Abs(n) == IF n < 0 THEN -n ELSE n

RECURSIVE Gcd(_, _)
Gcd(a, b) == IF b = 0 THEN a ELSE Gcd(b, a % b)

\* n / d for d > 0, in lowest terms.
Rat(n, d) ==
    LET g == Gcd(Abs(n), d)
    IN  [num |-> n \div g, den |-> d \div g]

RatOfInt(x) == [num |-> x, den |-> 1]
RatAdd(a, b) == Rat(a.num * b.den + b.num * a.den, a.den * b.den)
RatSub(a, b) == Rat(a.num * b.den - b.num * a.den, a.den * b.den)
RatMul(a, b) == Rat(a.num * b.num, a.den * b.den)
RatLess(a, b) == a.num * b.den < b.num * a.den

\* Series.min() / Series.max() over a non-empty column, scanned in row order.
RECURSIVE SeriesMin(_)
SeriesMin(s) ==
    IF Len(s) = 1 THEN s[1]
    ELSE LET m == SeriesMin(SubSeq(s, 1, Len(s) - 1))
         IN  IF s[Len(s)] < m THEN s[Len(s)] ELSE m

RECURSIVE SeriesMax(_)
SeriesMax(s) ==
    IF Len(s) = 1 THEN s[1]
    ELSE LET m == SeriesMax(SubSeq(s, 1, Len(s) - 1))
         IN  IF s[Len(s)] > m THEN s[Len(s)] ELSE m

Column(rows, c) == [i \in DOMAIN rows |-> rows[i][c]]

\* groupby("Object Name") sorts the group keys (sort=True): ascending ids.
RECURSIVE SortedKeys(_)
SortedKeys(S) ==
    IF S = {} THEN <<>>
    ELSE LET m == CHOOSE k \in S : \A j \in S : k <= j
         IN  <<m>> \o SortedKeys(S \ {m})

GroupKeys(frame) == SortedKeys({r["Object Name"] : r \in Range(frame.rows)})

GroupRows(frame, key) ==
    SelectSeq(frame.rows, LAMBDA r : r["Object Name"] = key)

\* Mutant of FootingRow: Ymax aggregates "Global X".
FootingRowYmaxOfX(frame, key) ==
    LET g == GroupRows(frame, key)
        Xmin == SeriesMin(Column(g, "Global X"))
        Xmax == SeriesMax(Column(g, "Global X"))
        Ymin == SeriesMin(Column(g, "Global Y"))
        Ymax == SeriesMax(Column(g, "Global X"))
    IN  ("Footing" :> key) @@ ("Xmin" :> Xmin) @@ ("Xmax" :> Xmax) @@
        ("Ymin" :> Ymin) @@ ("Ymax" :> Ymax) @@
        ("Xc" :> Rat(Xmin + Xmax, 2)) @@ ("Yc" :> Rat(Ymin + Ymax, 2)) @@
        ("L" :> Rat(Xmax - Xmin, 1000)) @@ ("B" :> Rat(Ymax - Ymin, 1000))

\* One row of footing_geom: .agg(min/max) of a group, then centre and size.
FootingRow(frame, key) ==
    LET g == GroupRows(frame, key)
        Xmin == SeriesMin(Column(g, "Global X"))
        Xmax == SeriesMax(Column(g, "Global X"))
        Ymin == SeriesMin(Column(g, "Global Y"))
        Ymax == SeriesMax(Column(g, "Global Y"))
    IN  ("Footing" :> key) @@ ("Xmin" :> Xmin) @@ ("Xmax" :> Xmax) @@
        ("Ymin" :> Ymin) @@ ("Ymax" :> Ymax) @@
        ("Xc" :> Rat(Xmin + Xmax, 2)) @@ ("Yc" :> Rat(Ymin + Ymax, 2)) @@
        ("L" :> Rat(Xmax - Xmin, 1000)) @@ ("B" :> Rat(Ymax - Ymin, 1000))

FootingCols == {"Footing", "Xmin", "Xmax", "Ymin", "Ymax", "Xc", "Yc", "L", "B"}

FootingGeomOf(frame) ==
    LET keys == GroupKeys(frame)
    IN  [columns |-> FootingCols,
         rows |-> [k \in DOMAIN keys |-> FootingRow(frame, keys[k])]]

\* pd.merge(left, right, left_on="Unique Name", right_on="Joint",
\* how="inner"): the order of the left rows is kept; a left row yields one
\* row per right row with its key, in the right rows' order.
MatchesOf(l, right) ==
    LET hit == SelectSeq(right.rows, LAMBDA r : r["Joint"] = l["Unique Name"])
    IN  [i \in DOMAIN hit |-> l @@ hit[i]]

RECURSIVE MergeRows(_, _, _)
MergeRows(left, right, n) ==
    IF n = 0 THEN <<>>
    ELSE MergeRows(left, right, n - 1) \o MatchesOf(left.rows[n], right)

\* Mutant of PdMerge: the rows follow the order of the right keys.
RECURSIVE MergeRowsRightOrder(_, _, _)
MergeRowsRightOrder(left, right, n) ==
    IF n = 0 THEN <<>>
    ELSE LET r == right.rows[n]
             hit == SelectSeq(left.rows,
                              LAMBDA l : l["Unique Name"] = r["Joint"])
         IN  MergeRowsRightOrder(left, right, n - 1)
                \o [i \in DOMAIN hit |-> hit[i] @@ r]

PdMergeRightOrder(left, right) ==
    [columns |-> left.columns \cup right.columns,
     rows |-> MergeRowsRightOrder(left, right, Len(right.rows))]

PdMerge(left, right) ==
    [columns |-> left.columns \cup right.columns,
     rows |-> MergeRows(left, right, Len(left.rows))]

\* d = (Xc - x)**2 + (Yc - y)**2, one entry per footing.
SqDist(geom, x, y) ==
    [k \in DOMAIN geom.rows |->
        LET dx == RatSub(geom.rows[k]["Xc"], RatOfInt(x))
            dy == RatSub(geom.rows[k]["Yc"], RatOfInt(y))
        IN  RatAdd(RatMul(dx, dx), RatMul(dy, dy))]

\* Mutant of IdxMin: the last occurrence of the minimum.
RECURSIVE IdxMinLast(_)
IdxMinLast(d) ==
    IF Len(d) = 1 THEN 1
    ELSE LET k == IdxMinLast(SubSeq(d, 1, Len(d) - 1))
         IN  IF ~RatLess(d[k], d[Len(d)]) THEN Len(d) ELSE k

\* Series.idxmin(): the label of the first occurrence of the minimum.
RECURSIVE IdxMin(_)
IdxMin(d) ==
    IF Len(d) = 1 THEN 1
    ELSE LET k == IdxMin(SubSeq(d, 1, Len(d) - 1))
         IN  IF RatLess(d[Len(d)], d[k]) THEN Len(d) ELSE k

\* nearest_footing(x, y), defined when footing_geom has a row.
nearest_footing(geom, x, y) == geom.rows[IdxMin(SqDist(geom, x, y))]

\* merged.apply(lambda r: nearest_footing(...), axis=1)
FootingRows(m, geom) ==
    [i \in DOMAIN m.rows |->
        nearest_footing(geom, m.rows[i]["Global X"], m.rows[i]["Global Y"])]

\* Mutant of Concat: the footing rows are attached in reverse order.
ConcatReversed(m, frows) ==
    [columns |-> m.columns \cup FootingCols,
     rows |-> [i \in DOMAIN m.rows |->
                  m.rows[i] @@ frows[Len(frows) + 1 - i]]]

\* pd.concat([merged, footing_rows], axis=1)
Concat(m, frows) ==
    [columns |-> m.columns \cup FootingCols,
     rows |-> [i \in DOMAIN m.rows |-> m.rows[i] @@ frows[i]]]

\* Mutant of Unique: the values are not deduplicated.
KeepAll(s) == s

\* Series.unique().tolist(): the distinct values in first-seen order.
RECURSIVE Unique(_)
Unique(s) ==
    IF s = <<>> THEN <<>>
    ELSE LET u == Unique(SubSeq(s, 1, Len(s) - 1))
         IN  IF s[Len(s)] \in Range(u) THEN u ELSE Append(u, s[Len(s)])

\* data[data["Output Case"] == selected_combo]
FilterCase(data, combo) ==
    [columns |-> data.columns,
     rows |-> SelectSeq(data.rows, LAMBDA r : r["Output Case"] = combo)]

\* ------------------------------------------------------------ inputs
\* The workbook read by pd.read_excel: three sheets, each a frame.
JointIds == {1, 2}
Cases == {1, 2}
FZs == {-450}
FootingIds == {1, 2}
CornerJoints == {7}
AreaXs == {0, 4000}
AreaYs == {0, 2000}
FineXs == {0, 1, 1500}
FineYs == {0, 500}
JointXs == {2000, 4000}
JointYs == {1000}

Opt(S, nullable) == IF nullable THEN S \cup {NaN} ELSE S

ReactionRows(nullable) ==
    {("Unique Name" :> u) @@ ("Output Case" :> c) @@ ("FZ" :> f) :
        u \in Opt(JointIds, nullable), c \in Opt(Cases, nullable),
        f \in Opt(FZs, nullable)}

CoordRows(nullable) ==
    {("Object Name" :> j) @@ ("Global X" :> x) @@ ("Global Y" :> y) :
        j \in Opt(JointIds, nullable), x \in Opt(JointXs, nullable),
        y \in Opt(JointYs, nullable)}

AreaRows(ids, xs, ys, nullable) ==
    {("Object Name" :> o) @@ ("Joint" :> j) @@
     ("Global X" :> x) @@ ("Global Y" :> y) :
        o \in Opt(ids, nullable), j \in Opt(CornerJoints, nullable),
        x \in Opt(xs, nullable), y \in Opt(ys, nullable)}

SeqsUpTo(S, n) == UNION {[1..k -> S] : k \in 0..n}

Sheet(cols, rows) == [columns |-> Range(cols), rows |-> rows]

AreaRow(o, x, y) ==
    ("Object Name" :> o) @@ ("Joint" :> 7) @@
    ("Global X" :> x) @@ ("Global Y" :> y)

\* A reference workbook: one reaction, one joint, two footings listed with
\* the higher id first.
RefLoads == <<("Unique Name" :> 1) @@ ("Output Case" :> 1) @@ ("FZ" :> -450)>>
RefJoints ==
    <<("Object Name" :> 1) @@ ("Global X" :> 2000) @@ ("Global Y" :> 1000)>>
RefAreas ==
    <<AreaRow(2, 4000, 0), AreaRow(2, 4000, 2000),
      AreaRow(1, 0, 0), AreaRow(1, 0, 2000)>>

Restrict(rows, cols) ==
    [i \in DOMAIN rows |-> [c \in cols |-> rows[i][c]]]

Workbook(l, j, a) ==
    [loads |-> Sheet(ReactionCols, l), joints |-> Sheet(CoordCols, j),
     areas |-> Sheet(AreaCols, a)]

\* Any sheet may lack any of its required columns.
SchemaInputs ==
    {[loads |-> [columns |-> lc, rows |-> Restrict(RefLoads, lc)],
      joints |-> [columns |-> jc, rows |-> Restrict(RefJoints, jc)],
      areas |-> [columns |-> ac, rows |-> Restrict(RefAreas, ac)]] :
        lc \in SUBSET Range(ReactionCols), jc \in SUBSET Range(CoordCols),
        ac \in SUBSET Range(AreaCols)}

\* Reactions and joint coordinates vary over the reference footings.
JoinInputs ==
    {Workbook(l, j, RefAreas) :
        l \in SeqsUpTo(ReactionRows(FALSE), MaxReactions),
        j \in SeqsUpTo(CoordRows(FALSE), MaxCoords)}

\* The corner rows vary (none included) under the reference reaction.
GeomInputs ==
    {Workbook(RefLoads, RefJoints, a) :
        a \in SeqsUpTo(AreaRows(FootingIds, AreaXs, AreaYs, FALSE), MaxAreas)}

\* Corner rows a millimetre or less than a metre apart: fractional centres
\* and sides.
FineInputs ==
    {Workbook(RefLoads, RefJoints, a) :
        a \in SeqsUpTo(AreaRows(FootingIds, FineXs, FineYs, FALSE),
                       MaxFineAreas)}

\* Rows with null cells, one sheet at a time.
NullInputs ==
    {Workbook(l, RefJoints, RefAreas) :
        l \in SeqsUpTo(ReactionRows(TRUE), MaxNullRows)}
    \cup {Workbook(RefLoads, j, RefAreas) :
        j \in SeqsUpTo(CoordRows(TRUE), MaxNullRows)}
    \cup {Workbook(RefLoads, RefJoints, a) :
        a \in SeqsUpTo(AreaRows({1}, AreaXs, {0}, TRUE), MaxNullRows)}

InputSlices ==
    <<SchemaInputs, JoinInputs, GeomInputs, NullInputs, FineInputs>>

\* ------------------------------------------------------------ state machine
Init ==
    /\ \E k \in DOMAIN InputSlices : \E w \in InputSlices[k] :
          /\ loads_raw = w.loads
          /\ joints_raw = w.joints
          /\ areas_raw = w.areas
    /\ loads_df = EmptyFrame
    /\ joints_df = EmptyFrame
    /\ areas_df = EmptyFrame
    /\ footing_geom = EmptyFrame
    /\ merged = EmptyFrame
    /\ final_df = EmptyFrame
    /\ load_combos = <<>>
    /\ selected_combo = NaN
    /\ df = EmptyFrame
    /\ pc = "reactions"
    /\ err = NoError

\* validate_columns: the ValueError raised when columns are missing.
SchemaError(frame, required_cols, sheet_label) ==
    [exc |-> "ValueError", label |-> sheet_label,
     missing |-> MissingColumns(frame, required_cols)]

validate_columns(frame, required_cols) ==
    MissingColumns(frame, required_cols) = <<>>

\* Lines 62-72: validate the reactions sheet, drop its rows with nulls.
ReadReactions ==
    /\ pc = "reactions"
    /\ IF validate_columns(loads_raw, ReactionCols)
       THEN /\ loads_df' = DropNa(loads_raw, ReactionCols)
            /\ pc' = "joints"
            /\ err' = err
       ELSE /\ err' = SchemaError(loads_raw, ReactionCols, ReactionLabel)
            /\ pc' = "error"
            /\ loads_df' = loads_df
    /\ UNCHANGED <<loads_raw, joints_raw, areas_raw, joints_df, areas_df,
                   footing_geom, merged, final_df, load_combos,
                   selected_combo, df>>

\* Lines 74-88: validate the coordinates sheet, drop nulls, rename the id.
ReadJoints ==
    /\ pc = "joints"
    /\ IF validate_columns(joints_raw, CoordCols)
       THEN /\ joints_df' = Rename(DropNa(joints_raw, CoordCols),
                                   "Object Name", "Joint")
            /\ pc' = "areas"
            /\ err' = err
       ELSE /\ err' = SchemaError(joints_raw, CoordCols, CoordLabel)
            /\ pc' = "error"
            /\ joints_df' = joints_df
    /\ UNCHANGED <<loads_raw, joints_raw, areas_raw, loads_df, areas_df,
                   footing_geom, merged, final_df, load_combos,
                   selected_combo, df>>

\* Lines 90-100: validate the area sheet, drop its rows with nulls.
ReadAreas ==
    /\ pc = "areas"
    /\ IF validate_columns(areas_raw, AreaCols)
       THEN /\ areas_df' = DropNa(areas_raw, AreaCols)
            /\ pc' = "geom"
            /\ err' = err
       ELSE /\ err' = SchemaError(areas_raw, AreaCols, AreaLabel)
            /\ pc' = "error"
            /\ areas_df' = areas_df
    /\ UNCHANGED <<loads_raw, joints_raw, areas_raw, loads_df, joints_df,
                   footing_geom, merged, final_df, load_combos,
                   selected_combo, df>>

\* Lines 102-120: the footing rectangles.
ComputeFootingGeom ==
    /\ pc = "geom"
    /\ footing_geom' = FootingGeomOf(areas_df)
    /\ pc' = "merge"
    /\ UNCHANGED <<loads_raw, joints_raw, areas_raw, loads_df, joints_df,
                   areas_df, merged, final_df, load_combos, selected_combo,
                   df, err>>

\* Lines 122-129: the inner join.
MergeReactions ==
    /\ pc = "merge"
    /\ merged' = PdMerge(loads_df, joints_df)
    /\ pc' = "assign"
    /\ UNCHANGED <<loads_raw, joints_raw, areas_raw, loads_df, joints_df,
                   areas_df, footing_geom, final_df, load_combos,
                   selected_combo, df, err>>

\* d.idxmin() on the empty Series d (no footing): the argmin of an empty
\* sequence, a ValueError, whether the area sheet had no row or lost all of
\* its rows to dropna.
EmptyIdxMinError == [exc |-> "ValueError", label |-> "", missing |-> <<>>]

\* Lines 131-150 with at least one joined row: idxmin of an empty Series
\* raises when there is no footing; otherwise every joined row gets its
\* nearest footing and the function returns.
AssignFootings ==
    /\ pc = "assign"
    /\ merged.rows # <<>>
    /\ IF footing_geom.rows = <<>>
       THEN /\ err' = EmptyIdxMinError
            /\ pc' = "error"
            /\ UNCHANGED <<final_df, load_combos>>
       ELSE /\ final_df' = Concat(merged, FootingRows(merged, footing_geom))
            /\ load_combos' = Unique(Column(final_df'.rows, "Output Case"))
            /\ pc' = "done"
            /\ err' = err
    /\ UNCHANGED <<loads_raw, joints_raw, areas_raw, loads_df, joints_df,
                   areas_df, footing_geom, merged, selected_combo, df>>

\* Lines 136-150 with no joined row.  DataFrame.apply on an empty frame
\* probes the function with an all-NaN row, swallows its exception and
\* returns a copy of merged; the concat then holds every merged column
\* twice, final_df["Output Case"] is a frame and .unique() raises
\* AttributeError.  A pandas that returns an empty result instead ends
\* with no record and no case.  Both outcomes are kept.
AssignNothing ==
    /\ pc = "assign"
    /\ merged.rows = <<>>
    /\ \/ /\ err' = [exc |-> "AttributeError", label |-> "", missing |-> <<>>]
          /\ pc' = "error"
          /\ UNCHANGED <<final_df, load_combos>>
       \/ /\ final_df' = Concat(merged, <<>>)
          /\ load_combos' = <<>>
          /\ pc' = "done"
          /\ err' = err
    /\ UNCHANGED <<loads_raw, joints_raw, areas_raw, loads_df, joints_df,
                   areas_df, footing_geom, merged, selected_combo, df>>

\* Lines 194-199: the user picks a load combination; the records of that
\* case are shown.  With no option the selectbox returns None.
SelectCombo ==
    /\ pc = "done"
    /\ \E c \in IF load_combos = <<>> THEN {NaN} ELSE Range(load_combos) :
          /\ selected_combo' = c
          /\ df' = FilterCase(final_df, c)
    /\ pc' = "shown"
    /\ UNCHANGED <<loads_raw, joints_raw, areas_raw, loads_df, joints_df,
                   areas_df, footing_geom, merged, final_df, load_combos,
                   err>>

Next ==
    \/ ReadReactions
    \/ ReadJoints
    \/ ReadAreas
    \/ ComputeFootingGeom
    \/ MergeReactions
    \/ AssignFootings
    \/ AssignNothing
    \/ SelectCombo

Spec == Init /\ [][Next]_vars

\* ------------------------------------------------------------ properties
\* process_etabs_file has returned (load_combos, final_df).
Returned == pc \in {"done", "shown"}

Records == final_df.rows

NullFree(r, cols) == \A c \in Range(cols) : r[c] # NaN

\* The input rows that are complete, stated on the sheets as read.
ReactionRecs == SelectSeq(loads_raw.rows, LAMBDA r : NullFree(r, ReactionCols))
CoordRecs == SelectSeq(joints_raw.rows, LAMBDA r : NullFree(r, CoordCols))
CornerRecs == SelectSeq(areas_raw.rows, LAMBDA r : NullFree(r, AreaCols))

\* The joint ids of the coordinate index.
IndexedJoints == {r["Object Name"] : r \in Range(CoordRecs)}

\* The reaction rows that have a position.
JoinedReactions ==
    SelectSeq(ReactionRecs, LAMBDA r : r["Unique Name"] \in IndexedJoints)

\* The last coordinate row of a joint id.
LastCoord(j) ==
    LET k == CHOOSE i \in DOMAIN CoordRecs :
                /\ CoordRecs[i]["Object Name"] = j
                /\ \A n \in DOMAIN CoordRecs :
                      CoordRecs[n]["Object Name"] = j => n <= i
    IN  CoordRecs[k]

FirstOcc(s, v) ==
    CHOOSE i \in DOMAIN s : s[i] = v /\ \A n \in 1..(i - 1) : s[n] # v

CornersOf(f) ==
    {<<r["Global X"], r["Global Y"]>> :
        r \in {q \in Range(CornerRecs) : q["Object Name"] = f}}

\* C1 (as claimed): the run returns as many records as there are reaction
\* rows whose joint id is in the coordinate index, none with a null
\* position.
C1_InnerJoinCount ==
    Returned =>
        /\ Len(Records) = Len(JoinedReactions)
        /\ \A i \in DOMAIN Records :
              Records[i]["Global X"] # NaN /\ Records[i]["Global Y"] # NaN

\* C2 (as claimed): every returned record has L > 0 and B > 0.
C2_PositiveSize ==
    Returned =>
        \A i \in DOMAIN Records : Records[i]["L"].num > 0 /\ Records[i]["B"].num > 0

\* C3 (as claimed): a footing group with fewer than 2 distinct corner
\* positions gets no rectangle, is attached to no record, and the run does
\* not proceed past the geometry step with it.
C3_DegenerateRejected ==
    /\ \A k \in DOMAIN footing_geom.rows :
          Cardinality(CornersOf(footing_geom.rows[k]["Footing"])) >= 2
    /\ \A i \in DOMAIN Records :
          Cardinality(CornersOf(Records[i]["Footing"])) >= 2

Lacking ==
    <<Range(ReactionCols) \ loads_raw.columns,
      Range(CoordCols) \ joints_raw.columns,
      Range(AreaCols) \ areas_raw.columns>>

RoleCols == <<ReactionCols, CoordCols, AreaCols>>
RoleLabels == <<ReactionLabel, CoordLabel, AreaLabel>>

\* The roles whose validation the run has passed.
Validated ==
    CASE pc = "reactions" -> {}
      [] pc = "joints" -> {1}
      [] pc = "areas" -> {1, 2}
      [] pc = "error" -> {}
      [] OTHER -> {1, 2, 3}

NoOutput == final_df = EmptyFrame /\ load_combos = <<>> /\ df = EmptyFrame

\* C4: a sheet lacking a required column is never validated; the error then
\* carries the label of the first such sheet and exactly its missing
\* required columns, in required order, and nothing is returned; with no
\* column missing no schema error is raised.
C4_SchemaError ==
    /\ \A k \in Validated : Lacking[k] = {}
    /\ (\E k \in 1..3 : Lacking[k] # {}) => NoOutput
    /\ (pc = "error" /\ err.label # "") =>
          /\ err.exc = "ValueError"
          /\ \E k \in 1..3 :
                /\ err.label = RoleLabels[k]
                /\ Lacking[k] # {}
                /\ \A n \in 1..(k - 1) : Lacking[n] = {}
                /\ err.missing =
                      SelectSeq(RoleCols[k], LAMBDA c : c \in Lacking[k])
    /\ (\A k \in 1..3 : Lacking[k] = {}) => err.label = ""

\* C4 witness: the coordinates sheet lacks two columns, the area sheet one
\* more, and the error names the coordinates sheet.
C4_Witness ==
    /\ pc = "error"
    /\ err.label = CoordLabel
    /\ Len(err.missing) = 2
    /\ Lacking[3] # {}

DistTo(rec) ==
    [k \in DOMAIN footing_geom.rows |->
        LET xc == footing_geom.rows[k]["Xc"]
            yc == footing_geom.rows[k]["Yc"]
            dx == xc.num - rec["Global X"] * xc.den
            dy == yc.num - rec["Global Y"] * yc.den
        IN  \* dx^2/xc.den^2 + dy^2/yc.den^2 as [num, den], not reduced
            [num |-> dx * dx * yc.den * yc.den + dy * dy * xc.den * xc.den,
             den |-> xc.den * xc.den * yc.den * yc.den]]

\* a <= b and a = b for fractions with positive denominators.
Leq(a, b) == a.num * b.den <= b.num * a.den
Same(a, b) == a.num * b.den = b.num * a.den

\* C5: the footing of every returned record is at minimal squared distance
\* from the record's position, and every footing before it in footing_geom
\* (the footings in ascending id) is strictly farther.
C5_NearestFirst ==
    Returned =>
        \A i \in DOMAIN Records :
            LET d == DistTo(Records[i])
            IN  \E k \in DOMAIN d :
                   /\ footing_geom.rows[k]["Footing"] = Records[i]["Footing"]
                   /\ \A n \in DOMAIN d : Leq(d[k], d[n])
                   /\ \A n \in 1..(k - 1) : ~Leq(d[n], d[k])
                   /\ \A n \in DOMAIN d :
                         Same(d[n], d[k]) =>
                            Records[i]["Footing"]
                               <= footing_geom.rows[n]["Footing"]

\* C5 witness: a returned record equidistant from two footings, the corner
\* rows listing the footing that loses the tie first.
C5_Witness ==
    /\ Returned
    /\ \E i \in DOMAIN Records :
          LET d == DistTo(Records[i])
          IN  \E k, n \in DOMAIN d :
                 /\ k < n
                 /\ Same(d[k], d[n])
                 /\ \A m \in DOMAIN d : Leq(d[k], d[m])
                 /\ areas_raw.rows[1]["Object Name"]
                       = footing_geom.rows[n]["Footing"]

\* C6 (as claimed): with several coordinate rows for a joint id, each
\* reaction row of that joint yields exactly one record, at the position of
\* the last such coordinate row.
C6_LastSeenWins ==
    Returned =>
        /\ \A r \in Range(JoinedReactions) :
              Cardinality({i \in DOMAIN Records :
                              \A c \in Range(ReactionCols) :
                                 Records[i][c] = r[c]})
                 = Cardinality({i \in DOMAIN JoinedReactions :
                                   JoinedReactions[i] = r})
        /\ \A i \in DOMAIN Records :
              LET p == LastCoord(Records[i]["Unique Name"])
              IN  /\ Records[i]["Global X"] = p["Global X"]
                  /\ Records[i]["Global Y"] = p["Global Y"]

NoRepeat(s) == \A a, b \in DOMAIN s : a # b => s[a] # s[b]

\* C7 (as claimed): load_combos is in the order of first occurrence of each
\* case in the reaction rows, without repeats.
C7_FirstSeenInReactionRows ==
    Returned =>
        /\ NoRepeat(load_combos)
        /\ \A a, b \in DOMAIN load_combos :
              a < b =>
                 FirstOcc(Column(loads_raw.rows, "Output Case"), load_combos[a])
                    < FirstOcc(Column(loads_raw.rows, "Output Case"),
                               load_combos[b])

\* C7 (amended): load_combos holds exactly the cases of the reaction rows
\* that reach the output (complete rows whose joint id is in the coordinate
\* index), in the order of first occurrence among those rows, without
\* repeats.
C7_FirstSeenInJoinedRows ==
    Returned =>
        LET cases == Column(JoinedReactions, "Output Case")
        IN  /\ NoRepeat(load_combos)
            /\ Range(load_combos) = Range(cases)
            /\ \A a, b \in DOMAIN load_combos :
                  a < b =>
                     FirstOcc(cases, load_combos[a])
                        < FirstOcc(cases, load_combos[b])

\* C7 witness: two cases are returned, and the one listed second occurs
\* first in the reaction rows, in a row that does not reach the output.
C7_Witness ==
    /\ Returned
    /\ Len(load_combos) = 2
    /\ loads_raw.rows[1]["Output Case"] = load_combos[2]
    /\ loads_raw.rows[1]["Unique Name"] \notin IndexedJoints

CaseGroup(c) == {i \in DOMAIN Records : Records[i]["Output Case"] = c}

\* C8: the groups selected by the returned cases are non-empty, pairwise
\* disjoint and cover the records; each record is in the group of its own
\* case only; and the frame shown for the selected case is that group.
C8_CasePartition ==
    Returned =>
        /\ \A k \in DOMAIN load_combos : CaseGroup(load_combos[k]) # {}
        /\ \A a, b \in DOMAIN load_combos :
              a # b => CaseGroup(load_combos[a]) \cap CaseGroup(load_combos[b]) = {}
        /\ \A i \in DOMAIN Records :
              Cardinality({k \in DOMAIN load_combos :
                              i \in CaseGroup(load_combos[k])}) = 1
        /\ pc = "shown" =>
              /\ Len(df.rows) = Cardinality(CaseGroup(selected_combo))
              /\ \A i \in DOMAIN df.rows :
                    /\ df.rows[i]["Output Case"] = selected_combo
                    /\ df.rows[i] \in Range(Records)

\* C8 witness: three records in two cases, the group of two being shown.
C8_Witness ==
    /\ pc = "shown"
    /\ Len(load_combos) = 2
    /\ Len(Records) = 3
    /\ Len(df.rows) = 2

GroupOf(f) == {q \in Range(CornerRecs) : q["Object Name"] = f}

ExampleCorners == {<<0, 0>>, <<4000, 0>>, <<0, 2000>>, <<4000, 2000>>}

\* C9: footing_geom has one row per footing id of the complete corner rows;
\* its Xmin/Xmax/Ymin/Ymax are the least/greatest Global X / Global Y of the
\* group, Xc and Yc the midpoints, L and B the extents over 1000; the
\* corners (0,0), (4000,0), (0,2000), (4000,2000) give Xc=2000, Yc=1000,
\* L=4, B=2.
C9_DerivedGeometry ==
    pc \in {"merge", "assign", "done", "shown"} =>
        /\ \A r \in Range(CornerRecs) :
              Cardinality({k \in DOMAIN footing_geom.rows :
                 footing_geom.rows[k]["Footing"] = r["Object Name"]}) = 1
        /\ \A k \in DOMAIN footing_geom.rows :
              LET f == footing_geom.rows[k]
                  g == GroupOf(f["Footing"])
              IN  /\ g # {}
                  /\ \E r \in g : r["Global X"] = f["Xmin"]
                  /\ \E r \in g : r["Global X"] = f["Xmax"]
                  /\ \E r \in g : r["Global Y"] = f["Ymin"]
                  /\ \E r \in g : r["Global Y"] = f["Ymax"]
                  /\ \A r \in g :
                        /\ f["Xmin"] <= r["Global X"]
                        /\ r["Global X"] <= f["Xmax"]
                        /\ f["Ymin"] <= r["Global Y"]
                        /\ r["Global Y"] <= f["Ymax"]
                  /\ f["Xmin"] <= f["Xmax"]
                  /\ f["Ymin"] <= f["Ymax"]
                  /\ \A c \in {"Xc", "Yc", "L", "B"} : f[c].den > 0
                  /\ 2 * f["Xc"].num = (f["Xmin"] + f["Xmax"]) * f["Xc"].den
                  /\ 2 * f["Yc"].num = (f["Ymin"] + f["Ymax"]) * f["Yc"].den
                  /\ 1000 * f["L"].num = (f["Xmax"] - f["Xmin"]) * f["L"].den
                  /\ 1000 * f["B"].num = (f["Ymax"] - f["Ymin"]) * f["B"].den
                  /\ CornersOf(f["Footing"]) = ExampleCorners =>
                        /\ f["Xc"] = [num |-> 2000, den |-> 1]
                        /\ f["Yc"] = [num |-> 1000, den |-> 1]
                        /\ f["L"] = [num |-> 4, den |-> 1]
                        /\ f["B"] = [num |-> 2, den |-> 1]

\* C9 witness: a footing whose corner rows are exactly the four example
\* corners, listed with a maximum before a minimum.
C9_Witness ==
    /\ pc = "merge"
    /\ areas_raw.rows # <<>>
    /\ areas_raw.rows[1]["Global X"] = 4000
    /\ \E k \in DOMAIN footing_geom.rows :
          /\ CornersOf(footing_geom.rows[k]["Footing"]) = ExampleCorners
          /\ footing_geom.rows[k]["L"] = [num |-> 4, den |-> 1]

\* C10: every returned record carries the id of a footing group of the
\* complete corner rows together with that group's row of footing_geom;
\* records at one position carry the same footing; and a run with a joined
\* reaction row and no footing group ends in an error, returning nothing.
C10_AttachedGeometry ==
    /\ Returned =>
          /\ \A i \in DOMAIN Records :
                /\ Records[i]["Footing"] # NaN
                /\ GroupOf(Records[i]["Footing"]) # {}
                /\ \E k \in DOMAIN footing_geom.rows :
                      /\ footing_geom.rows[k]["Footing"] = Records[i]["Footing"]
                      /\ \A c \in FootingCols :
                            Records[i][c] = footing_geom.rows[k][c]
          /\ \A i, n \in DOMAIN Records :
                (/\ Records[i]["Global X"] = Records[n]["Global X"]
                 /\ Records[i]["Global Y"] = Records[n]["Global Y"])
                   => \A c \in FootingCols : Records[i][c] = Records[n][c]
          /\ Len(Records) = Len(merged.rows)
    /\ (pc \in {"done", "shown", "error"}
          /\ merged.rows # <<>> /\ footing_geom.rows = <<>>)
          => pc = "error" /\ err.exc # "" /\ err.label = "" /\ NoOutput

\* C10 witness: two returned records of different cases at one position,
\* with two footings to choose from.
C10_Witness ==
    /\ Returned
    /\ Len(footing_geom.rows) = 2
    /\ \E i, n \in DOMAIN Records :
          /\ Records[i]["Output Case"] # Records[n]["Output Case"]
          /\ Records[i]["Global X"] = Records[n]["Global X"]
          /\ Records[i]["Global Y"] = Records[n]["Global Y"]

=============================================================================
